---- MODULE Spec2Model ----
(***************************************************************************)
(* A model of rav1e's pixel plane (src/plane.rs): the geometry computed by *)
(* Plane::new, the in-place operations pad, copy_from_raw_u8 and           *)
(* downsample_from, the row-major pixel iterator PlaneIter, the row-slice  *)
(* iterator IterWidth and the clamped read view.                           *)
(*                                                                         *)
(* A buffer Vec<T> is a sequence; the element the code calls data[i] is    *)
(* data[i + 1] here.  A fatal assertion or an out-of-range index (a panic) *)
(* ends the run: status becomes "panic" and nothing more happens.  Every   *)
(* operation is modelled with the writes it has already made when it       *)
(* panics.                                                                 *)
(***************************************************************************)
EXTENDS Integers, Sequences, FiniteSets, TLC

\* ---------------------------------------------------------------- bounds
MaxWidth == 2
MaxHeight == 2
MaxPad == 1
MaxDec == 1
MaxOps == 2
MaxPadDelta == 1
MaxStrideDelta == 1
MaxRowDelta == 1
MaxSizeDelta == 1
MaxByteWidth == 3
MaxCoord == 2
MaxIterWidth == 2
MaxExtraCalls == 2

\* ------------------------------------------------------- program constants
STRIDE_ALIGNMENT_LOG2 == 4

\* The sample widths of the two instantiations Plane<u8> and Plane<u16>.
SampleBits == {8, 16}

\* ---------------------------------------------------------------- helpers
Min2(a, b) == IF a < b THEN a ELSE b
Max2(a, b) == IF a > b THEN a ELSE b
MinOf(S) == CHOOSE m \in S : \A e \in S : m <= e
CeilDiv(a, b) == (a + b - 1) \div b

RECURSIVE Pow2(_)
Pow2(n) == IF n = 0 THEN 1 ELSE 2 * Pow2(n - 1)

\* usize::align_power_of_two of crate::util.
align_power_of_two(x, n) == ((x + Pow2(n) - 1) \div Pow2(n)) * Pow2(n)

\* T::cast_from of crate::util: an `as` cast to the sample type, which keeps
\* the low `bits` bits.
CastFrom(bits, v) == v % Pow2(bits)

\* The operators << and | on u16, bit by bit.
Shl16(v, k) == (v * Pow2(k)) % 65536
RECURSIVE BitOr(_, _)
BitOr(a, b) ==
  IF a = 0 THEN b
  ELSE IF b = 0 THEN a
  ELSE (IF a % 2 = 1 \/ b % 2 = 1 THEN 1 ELSE 0) + 2 * BitOr(a \div 2, b \div 2)

\* ------------------------------------------------------------------ Plane
\* Plane::new with the bottom border left out of the allocation height.
New_ShortAlloc(bits, width, height, xdec, ydec, xpad, ypad) ==
  LET xorigin == align_power_of_two(xpad, STRIDE_ALIGNMENT_LOG2 - 1)
      yorigin == ypad
      stride == align_power_of_two(xorigin + width + xpad, STRIDE_ALIGNMENT_LOG2 - 1)
      alloc_height == yorigin + height
  IN [data |-> [i \in 1..(stride * alloc_height) |-> CastFrom(bits, 128)],
      cfg |-> [stride |-> stride, alloc_height |-> alloc_height,
               width |-> width, height |-> height,
               xdec |-> xdec, ydec |-> ydec, xpad |-> xpad, ypad |-> ypad,
               xorigin |-> xorigin, yorigin |-> yorigin]]

\* Plane::new with the stride aligned to twice the unit of the origin.
New_Align16(bits, width, height, xdec, ydec, xpad, ypad) ==
  LET xorigin == align_power_of_two(xpad, STRIDE_ALIGNMENT_LOG2 - 1)
      yorigin == ypad
      stride == align_power_of_two(xorigin + width + xpad, STRIDE_ALIGNMENT_LOG2)
      alloc_height == yorigin + height + ypad
  IN [data |-> [i \in 1..(stride * alloc_height) |-> CastFrom(bits, 128)],
      cfg |-> [stride |-> stride, alloc_height |-> alloc_height,
               width |-> width, height |-> height,
               xdec |-> xdec, ydec |-> ydec, xpad |-> xpad, ypad |-> ypad,
               xorigin |-> xorigin, yorigin |-> yorigin]]

\* Plane::new.  (The assertion on the allocation's address is about the
\* allocator and has no counterpart here.)
New(bits, width, height, xdec, ydec, xpad, ypad) ==
  LET xorigin == align_power_of_two(xpad, STRIDE_ALIGNMENT_LOG2 - 1)
      yorigin == ypad
      stride == align_power_of_two(xorigin + width + xpad, STRIDE_ALIGNMENT_LOG2 - 1)
      alloc_height == yorigin + height + ypad
  IN [data |-> [i \in 1..(stride * alloc_height) |-> CastFrom(bits, 128)],
      cfg |-> [stride |-> stride, alloc_height |-> alloc_height,
               width |-> width, height |-> height,
               xdec |-> xdec, ydec |-> ydec, xpad |-> xpad, ypad |-> ypad,
               xorigin |-> xorigin, yorigin |-> yorigin]]

\* Plane::index and Plane::p.
index(cfg, x, y) == (y + cfg.yorigin) * cfg.stride + (x + cfg.xorigin)
p(pl, x, y) == pl.data[index(pl.cfg, x, y) + 1]

\* The four passes of Plane::pad.  Each takes and returns [data, ok]; ok is
\* FALSE once a slice range or an assertion has failed, and data then holds
\* what had been written before.
PadLeft(cfg, r, width, height) ==
  IF ~r.ok \/ ~(cfg.xorigin > 0) THEN r
  ELSE LET d == r.data
           n == Len(d)
           End(y) == (y + cfg.yorigin) * cfg.stride + cfg.xorigin + 1
           bad == {y \in 0..(height - 1) : End(y) > n}
           rows == IF bad = {} THEN height ELSE MinOf(bad)
       IN [data |-> [i \in 1..n |->
                      LET row == (i - 1) \div cfg.stride
                          col == (i - 1) % cfg.stride
                      IN IF /\ row >= cfg.yorigin
                            /\ row < cfg.yorigin + rows
                            /\ col < cfg.xorigin
                         THEN d[row * cfg.stride + cfg.xorigin + 1]
                         ELSE d[i]],
           ok |-> bad = {}]

\* The right pass of pad taking its fill value one sample too far right.
PadRight_FillNext(cfg, r, width, height) ==
  IF ~r.ok \/ ~(cfg.xorigin + width < cfg.stride) THEN r
  ELSE LET d == r.data
           n == Len(d)
           col0 == width - 1 + cfg.xorigin
           End(y) == (y + cfg.yorigin + 1) * cfg.stride
           bad == {y \in 0..(height - 1) : col0 < 0 \/ End(y) > n}
           rows == IF bad = {} THEN height ELSE MinOf(bad)
       IN [data |-> [i \in 1..n |->
                      LET row == (i - 1) \div cfg.stride
                          col == (i - 1) % cfg.stride
                      IN IF /\ row >= cfg.yorigin
                            /\ row < cfg.yorigin + rows
                            /\ col > col0
                         THEN d[row * cfg.stride + col0 + 2]
                         ELSE d[i]],
           ok |-> bad = {}]

PadRight(cfg, r, width, height) ==
  IF ~r.ok \/ ~(cfg.xorigin + width < cfg.stride) THEN r
  ELSE LET d == r.data
           n == Len(d)
           col0 == width - 1 + cfg.xorigin
           End(y) == (y + cfg.yorigin + 1) * cfg.stride
           bad == {y \in 0..(height - 1) : col0 < 0 \/ End(y) > n}
           rows == IF bad = {} THEN height ELSE MinOf(bad)
       IN [data |-> [i \in 1..n |->
                      LET row == (i - 1) \div cfg.stride
                          col == (i - 1) % cfg.stride
                      IN IF /\ row >= cfg.yorigin
                            /\ row < cfg.yorigin + rows
                            /\ col > col0
                         THEN d[row * cfg.stride + col0 + 1]
                         ELSE d[i]],
           ok |-> bad = {}]

PadTop(cfg, r) ==
  IF ~r.ok \/ ~(cfg.yorigin > 0) THEN r
  ELSE LET d == r.data
           n == Len(d)
           mid == cfg.yorigin * cfg.stride
       IN IF mid > n \/ n - mid < cfg.stride
          THEN [data |-> d, ok |-> FALSE]
          ELSE [data |-> [i \in 1..n |->
                           IF i - 1 < mid
                           THEN d[mid + ((i - 1) % cfg.stride) + 1]
                           ELSE d[i]],
                ok |-> TRUE]

PadBottom(cfg, r, height) ==
  IF ~r.ok \/ ~(cfg.yorigin + height < cfg.alloc_height) THEN r
  ELSE LET d == r.data
           n == Len(d)
           rowL == height - 1 + cfg.yorigin
           base == rowL * cfg.stride
       IN IF rowL < 0 \/ base > n \/ n - base < cfg.stride
          THEN [data |-> d, ok |-> FALSE]
          ELSE LET first == rowL + 1
                   bad == {y \in 0..(cfg.yorigin - 1) :
                             (first + y + 1) * cfg.stride > n}
                   rows == IF bad = {} THEN cfg.yorigin ELSE MinOf(bad)
               IN [data |-> [i \in 1..n |->
                              LET row == (i - 1) \div cfg.stride
                                  col == (i - 1) % cfg.stride
                              IN IF row >= first /\ row < first + rows
                                 THEN d[base + col + 1]
                                 ELSE d[i]],
                   ok |-> bad = {}]

\* A right shift by k bits.
Shr(v, k) == v \div Pow2(k)

\* Plane::pad.
Pad(pl, w, h) ==
  LET width == Shr(w, pl.cfg.xdec)
      height == Shr(h, pl.cfg.ydec)
      r0 == [data |-> pl.data, ok |-> TRUE]
      r1 == PadLeft(pl.cfg, r0, width, height)
      r2 == PadRight(pl.cfg, r1, width, height)
      r3 == PadTop(pl.cfg, r2)
  IN PadBottom(pl.cfg, r3, height)

\* copy_from_raw_u8 reading the high byte first.
CopyFromRawU8_BigEndian(pl, bits, source, source_stride, source_bytewidth) ==
  LET d == pl.data
      n == Len(d)
      stride == pl.cfg.stride
      i0 == index(pl.cfg, 0, 0)
  IN IF i0 > n \/ stride = 0 \/ source_stride = 0
     THEN [data |-> d, ok |-> FALSE]
     ELSE
       LET nRows == Min2(CeilDiv(n - i0, stride),
                         CeilDiv(Len(source), source_stride))
           SelfLen(k) == Min2(stride, n - i0 - k * stride)
           SrcLen(k) == Min2(source_stride, Len(source) - k * source_stride)
           Pairs(k) == CeilDiv(SrcLen(k), 2)
           fits == bits >= 16
           RowPanics(k) ==
             /\ source_bytewidth = 2
             /\ \/ ~fits
                \/ SrcLen(k) % 2 = 1 /\ SelfLen(k) >= Pairs(k)
           bad == {k \in 0..(nRows - 1) : RowPanics(k)}
           last == IF bad = {} THEN nRows - 1 ELSE MinOf(bad)
           Written(k) ==
             IF source_bytewidth = 1 THEN Min2(SelfLen(k), SrcLen(k))
             ELSE IF source_bytewidth = 2
             THEN IF ~fits THEN 0
                  ELSE IF RowPanics(k) THEN Pairs(k) - 1
                  ELSE Min2(SelfLen(k), Pairs(k))
             ELSE 0
           Value(k, j) ==
             IF source_bytewidth = 1
             THEN CastFrom(bits, source[k * source_stride + j + 1])
             ELSE CastFrom(bits,
                    BitOr(Shl16(source[k * source_stride + 2 * j + 1], 8),
                          source[k * source_stride + 2 * j + 2]))
       IN [data |-> [i \in 1..n |->
                      IF i - 1 < i0 THEN d[i]
                      ELSE LET k == (i - 1 - i0) \div stride
                               j == (i - 1 - i0) % stride
                           IN IF k <= last /\ j < Written(k)
                              THEN Value(k, j) ELSE d[i]],
           ok |-> bad = {}]

\* Plane::copy_from_raw_u8.  The plane's rows are the chunks of `stride`
\* samples that start at the visible origin, the source's rows the chunks of
\* `source_stride` bytes; the two are walked in step.
CopyFromRawU8(pl, bits, source, source_stride, source_bytewidth) ==
  LET d == pl.data
      n == Len(d)
      stride == pl.cfg.stride
      i0 == index(pl.cfg, 0, 0)
  IN IF i0 > n \/ stride = 0 \/ source_stride = 0
     THEN [data |-> d, ok |-> FALSE]
     ELSE
       LET nRows == Min2(CeilDiv(n - i0, stride),
                         CeilDiv(Len(source), source_stride))
           SelfLen(k) == Min2(stride, n - i0 - k * stride)
           SrcLen(k) == Min2(source_stride, Len(source) - k * source_stride)
           Pairs(k) == CeilDiv(SrcLen(k), 2)
           fits == bits >= 16
           RowPanics(k) ==
             /\ source_bytewidth = 2
             /\ \/ ~fits
                \/ SrcLen(k) % 2 = 1 /\ SelfLen(k) >= Pairs(k)
           bad == {k \in 0..(nRows - 1) : RowPanics(k)}
           last == IF bad = {} THEN nRows - 1 ELSE MinOf(bad)
           Written(k) ==
             IF source_bytewidth = 1 THEN Min2(SelfLen(k), SrcLen(k))
             ELSE IF source_bytewidth = 2
             THEN IF ~fits THEN 0
                  ELSE IF RowPanics(k) THEN Pairs(k) - 1
                  ELSE Min2(SelfLen(k), Pairs(k))
             ELSE 0
           Value(k, j) ==
             IF source_bytewidth = 1
             THEN CastFrom(bits, source[k * source_stride + j + 1])
             ELSE CastFrom(bits,
                    BitOr(Shl16(source[k * source_stride + 2 * j + 2], 8),
                          source[k * source_stride + 2 * j + 1]))
       IN [data |-> [i \in 1..n |->
                      IF i - 1 < i0 THEN d[i]
                      ELSE LET k == (i - 1 - i0) \div stride
                               j == (i - 1 - i0) % stride
                           IN IF k <= last /\ j < Written(k)
                              THEN Value(k, j) ELSE d[i]],
           ok |-> bad = {}]

\* downsample_from summing in the sample type instead of u32.
DownsampleFrom_NarrowSum(pl, bits, src) ==
  LET width == pl.cfg.width
      height == pl.cfg.height
      d == pl.data
  IN IF ~(width * 2 = src.cfg.width) \/ ~(height * 2 = src.cfg.height)
     THEN [data |-> d, ok |-> FALSE]
     ELSE [data |-> [i \in 1..Len(d) |->
                      LET row == ((i - 1) \div pl.cfg.stride) - pl.cfg.yorigin
                          col == ((i - 1) % pl.cfg.stride) - pl.cfg.xorigin
                      IN IF row >= 0 /\ row < height /\ col >= 0 /\ col < width
                         THEN LET sum == p(src, 2 * col, 2 * row)
                                         + p(src, 2 * col + 1, 2 * row)
                                         + p(src, 2 * col, 2 * row + 1)
                                         + p(src, 2 * col + 1, 2 * row + 1)
                                  avg == Shr((sum + 2) % Pow2(bits), 2)
                              IN CastFrom(bits, avg)
                         ELSE d[i]],
           ok |-> TRUE]

\* Plane::downsample_from.  The sum is a u32: four samples of at most 16
\* bits and the bias stay below 2^32, so the sum is exact.
DownsampleFrom(pl, bits, src) ==
  LET width == pl.cfg.width
      height == pl.cfg.height
      d == pl.data
  IN IF ~(width * 2 = src.cfg.width) \/ ~(height * 2 = src.cfg.height)
     THEN [data |-> d, ok |-> FALSE]
     ELSE [data |-> [i \in 1..Len(d) |->
                      LET row == ((i - 1) \div pl.cfg.stride) - pl.cfg.yorigin
                          col == ((i - 1) % pl.cfg.stride) - pl.cfg.xorigin
                      IN IF row >= 0 /\ row < height /\ col >= 0 /\ col < width
                         THEN LET sum == p(src, 2 * col, 2 * row)
                                         + p(src, 2 * col + 1, 2 * row)
                                         + p(src, 2 * col, 2 * row + 1)
                                         + p(src, 2 * col + 1, 2 * row + 1)
                                  avg == Shr(sum + 2, 2)
                              IN CastFrom(bits, avg)
                         ELSE d[i]],
           ok |-> TRUE]

\* PlaneSlice::as_slice: the offset at which the returned slice starts.  The
\* slice runs to the end of the buffer, so it exists iff start <= len.  A
\* negative row or column (cast to usize in the code) is never in range.
AsSlice(pl, x, y) ==
  LET row == y + pl.cfg.yorigin
      col == x + pl.cfg.xorigin
      start == row * pl.cfg.stride + col
  IN [start |-> start,
      ok |-> row >= 0 /\ col >= 0 /\ start <= Len(pl.data)]

\* PlaneSlice::as_slice_clamped.
AsSliceClamped(pl, x, y) ==
  LET row == Max2(Min2(y, pl.cfg.height) + pl.cfg.yorigin, 0)
      col == Max2(Min2(x, pl.cfg.width) + pl.cfg.xorigin, 0)
      start == row * pl.cfg.stride + col
  IN [start |-> start, ok |-> start <= Len(pl.data)]

\* PlaneSlice::clamp: the coordinate of the clamped view.
Clamp(pl, x, y) ==
  [x |-> Max2(Min2(x, pl.cfg.width), -pl.cfg.xorigin),
   y |-> Max2(Min2(y, pl.cfg.height), -pl.cfg.yorigin)]

\* IterWidth::next on the view (x, y) with the requested width: the offset of
\* the row it yields, or none.
IterWidthBase(pl, x, y) ==
  (pl.cfg.yorigin + y) * pl.cfg.stride + (pl.cfg.xorigin + x)
IterWidthYields(pl, x, y, width) ==
  ~(Len(pl.data) < IterWidthBase(pl, x, y) + width)

\* IterWidth::size_hint: height - (y as usize).  The subtraction underflows
\* once y has passed height, and for a negative y (a panic or a wrapped
\* value, as the build decides); Underflow stands for both.
Underflow == -1
SizeHint(pl, y) ==
  IF y >= 0 /\ y <= pl.cfg.height THEN pl.cfg.height - y ELSE Underflow

\* PlaneIter::new and PlaneIter::next.  An iterator is [x, y], with what it
\* has yielded so far (out), the buffer offsets it has read (reads) and the
\* number of times it has answered None (nones).
PlaneIterNew ==
  [active |-> TRUE, x |-> 0, y |-> 0, out |-> <<>>, reads |-> <<>>, nones |-> 0]
\* PlaneIter::next wrapping to the next row one sample late.
PlaneIterNext_LateWrap(pl, it) ==
  IF it.y = pl.cfg.height
  THEN [it EXCEPT !.nones = @ + 1]
  ELSE [it EXCEPT !.out = Append(@, p(pl, it.x, it.y)),
                  !.reads = Append(@, index(pl.cfg, it.x, it.y)),
                  !.x = IF it.x = pl.cfg.width THEN 0 ELSE it.x + 1,
                  !.y = IF it.x = pl.cfg.width THEN it.y + 1 ELSE it.y]

PlaneIterNext(pl, it) ==
  IF it.y = pl.cfg.height
  THEN [it EXCEPT !.nones = @ + 1]
  ELSE [it EXCEPT !.out = Append(@, p(pl, it.x, it.y)),
                  !.reads = Append(@, index(pl.cfg, it.x, it.y)),
                  !.x = IF it.x = pl.cfg.width - 1 THEN 0 ELSE it.x + 1,
                  !.y = IF it.x = pl.cfg.width - 1 THEN it.y + 1 ELSE it.y]

\* PlaneSlice::iter_width and IterWidth::next.  rows are the buffer offsets of
\* the rows yielded so far.
IterWidthNew(x, y, width) ==
  [active |-> TRUE, x |-> x, y |-> y, width |-> width, y0 |-> y,
   rows |-> <<>>, nones |-> 0]
IterWidthNext(pl, it) ==
  IF IterWidthYields(pl, it.x, it.y, it.width)
  THEN [it EXCEPT !.rows = Append(@, IterWidthBase(pl, it.x, it.y)),
                  !.y = @ + 1]
  ELSE [it EXCEPT !.nones = @ + 1]

\* ------------------------------------------------------------------ inputs
\* The raw byte buffers handed to copy_from_raw_u8: n bytes, no two
\* neighbours equal, or n bytes 255.
Source(n) == [i \in 1..n |-> (i * 37 + 164) % 256]
Full(n) == [i \in 1..n |-> 255]

\* A plane whose visible region has been ingested from a well-formed buffer
\* (stride = width * bytewidth, height rows).
Filled(pl, bits, bytes) ==
  [pl EXCEPT !.data = CopyFromRawU8(pl, bits, bytes,
                                    pl.cfg.width * (bits \div 8),
                                    bits \div 8).data]
FilledLen(pl, bits) == pl.cfg.width * (bits \div 8) * pl.cfg.height

\* The geometries: the small ones, and the one of the documented scenario.
Scenario == <<4, 2, 0, 0, 2, 2>>
Geometries ==
  ((1..MaxWidth) \X (1..MaxHeight) \X (0..MaxDec) \X (0..MaxDec)
     \X (0..MaxPad) \X (0..MaxPad)) \cup {Scenario}
NewOf(b, g) == New(b, g[1], g[2], g[3], g[4], g[5], g[6])

\* ------------------------------------------------------------------- state
\* plane: the plane (cfg and data); bits: its sample width; status: "ok" or
\* "panic"; ops: the calls of pad, copy_from_raw_u8 and downsample_from made
\* so far; last: the latest of these calls (its arguments, the buffer before
\* it); iter, iw, cl: the read view the client holds, if any: a PlaneIter, an
\* IterWidth, or the slice returned by as_slice_clamped.
VARIABLES plane, bits, status, ops, last, iter, iw, cl
vars == <<plane, bits, status, ops, last, iter, iw, cl>>

NoIter == [active |-> FALSE, x |-> 0, y |-> 0, out |-> <<>>, reads |-> <<>>,
           nones |-> 0]
NoIterWidth == [active |-> FALSE, x |-> 0, y |-> 0, width |-> 0, y0 |-> 0,
                rows |-> <<>>, nones |-> 0]
NoClamped == [active |-> FALSE, x |-> 0, y |-> 0, start |-> 0]

Init ==
  /\ bits \in SampleBits
  /\ \E g \in Geometries :
       /\ plane = NewOf(bits, g)
       /\ last = [op |-> "new", args |-> g, pre |-> <<>>]
  /\ status = "ok"
  /\ ops = 0
  /\ iter = NoIter
  /\ iw = NoIterWidth
  /\ cl = NoClamped

Finish(r, op, args) ==
  /\ plane' = [plane EXCEPT !.data = r.data]
  /\ status' = IF r.ok THEN "ok" ELSE "panic"
  /\ last' = [op |-> op, args |-> args, pre |-> plane.data]
  /\ ops' = ops + 1
  /\ UNCHANGED <<bits, iter, iw, cl>>

NoView == ~iter.active /\ ~iw.active /\ ~cl.active
CanCall == status = "ok" /\ ops < MaxOps /\ NoView

\* pad is called with the reference-resolution size: the plane's own size
\* scaled up by its subsampling shifts, give or take MaxPadDelta.
PadArgs(size, dec) ==
  {a \in ((size * Pow2(dec)) - MaxPadDelta)..((size * Pow2(dec)) + MaxPadDelta) :
     a >= 0}

DoPad ==
  /\ CanCall
  /\ \E w \in PadArgs(plane.cfg.width, plane.cfg.xdec),
        h \in PadArgs(plane.cfg.height, plane.cfg.ydec) :
       Finish(Pad(plane, w, h), "pad", [w |-> w, h |-> h])

\* copy_from_raw_u8 is called with a buffer of `rows` rows of `ss` bytes: the
\* well-formed frame (height rows of width * bytewidth bytes), or one with up
\* to MaxStrideDelta bytes more or fewer per row and up to MaxRowDelta rows
\* more or fewer.  With a source_stride of 0 the buffer holds `rows` bytes.
Around(v, delta) == {a \in (v - delta)..(v + delta) : a >= 0}

DoCopyFromRawU8 ==
  /\ CanCall
  /\ \E bw \in 1..MaxByteWidth :
     \E rows \in Around(plane.cfg.height, MaxRowDelta),
        ss \in Around(plane.cfg.width * bw, MaxStrideDelta) :
       LET source == Source(IF ss = 0 THEN rows ELSE rows * ss)
       IN Finish(CopyFromRawU8(plane, bits, source, ss, bw), "copy_from_raw_u8",
                 [source |-> source, source_stride |-> ss,
                  source_bytewidth |-> bw])

\* The source planes of downsample_from: twice the size (or up to
\* MaxSizeDelta more, which the assertions reject), with the borders of the
\* destination, ingested from either kind of buffer.
SrcPlanes ==
  {LET s == New(bits, 2 * plane.cfg.width + dw, 2 * plane.cfg.height + dh,
                0, 0, plane.cfg.xpad, plane.cfg.ypad)
   IN Filled(s, bits, IF full THEN Full(FilledLen(s, bits))
                               ELSE Source(FilledLen(s, bits))) :
     dw \in 0..MaxSizeDelta, dh \in 0..MaxSizeDelta, full \in BOOLEAN}

DoDownsampleFrom ==
  /\ CanCall
  /\ \E src \in SrcPlanes :
       Finish(DownsampleFrom(plane, bits, src), "downsample_from",
              [src |-> src])

Next == DoPad \/ DoCopyFromRawU8 \/ DoDownsampleFrom

Spec == Init /\ [][Next]_vars

\* ------------------------------------------------------------- read views
\* The plane a read view borrows: as constructed, or with a frame ingested.
InitView ==
  /\ bits \in SampleBits
  /\ \E g \in Geometries :
       \/ /\ plane = NewOf(bits, g)
          /\ last = [op |-> "new", args |-> g, pre |-> <<>>]
          /\ ops = 0
       \/ LET fresh == NewOf(bits, g)
              source == Source(FilledLen(fresh, bits))
          IN /\ plane = Filled(fresh, bits, source)
             /\ last = [op |-> "copy_from_raw_u8",
                        args |-> [source |-> source,
                                  source_stride |-> g[1] * (bits \div 8),
                                  source_bytewidth |-> bits \div 8],
                        pre |-> fresh.data]
             /\ ops = 1
  /\ status = "ok"
  /\ iter = NoIter
  /\ iw = NoIterWidth
  /\ cl = NoClamped

CanView == status = "ok" /\ NoView

\* plane.iter()
DoIter ==
  /\ CanView
  /\ iter' = PlaneIterNew
  /\ UNCHANGED <<plane, bits, status, ops, last, iw, cl>>

\* One call of next() on the PlaneIter; the read of p() is in range or fatal.
DoIterNext ==
  /\ status = "ok" /\ iter.active /\ iter.nones < MaxExtraCalls
  /\ IF iter.y # plane.cfg.height
        /\ index(plane.cfg, iter.x, iter.y) >= Len(plane.data)
     THEN status' = "panic" /\ iter' = iter
     ELSE status' = status /\ iter' = PlaneIterNext(plane, iter)
  /\ UNCHANGED <<plane, bits, ops, last, iw, cl>>

DropIter ==
  /\ iter.active
  /\ iter' = NoIter
  /\ UNCHANGED <<plane, bits, status, ops, last, iw, cl>>

\* plane.slice(x, y).iter_width(width), for a view inside the buffer.
DoIterWidth ==
  /\ CanView
  /\ \E x \in (-MaxCoord)..MaxCoord, y \in (-MaxCoord)..MaxCoord,
        width \in 1..MaxIterWidth :
       /\ x + plane.cfg.xorigin >= 0
       /\ y + plane.cfg.yorigin >= 0
       /\ iw' = IterWidthNew(x, y, width)
  /\ UNCHANGED <<plane, bits, status, ops, last, iter, cl>>

DoIterWidthNext ==
  /\ status = "ok" /\ iw.active /\ iw.nones < MaxExtraCalls
  /\ iw' = IterWidthNext(plane, iw)
  /\ UNCHANGED <<plane, bits, status, ops, last, iter, cl>>

DropIterWidth ==
  /\ iw.active
  /\ iw' = NoIterWidth
  /\ UNCHANGED <<plane, bits, status, ops, last, iter, cl>>

\* plane.slice(x, y).as_slice_clamped(), for any coordinate.
DoAsSliceClamped ==
  /\ CanView
  /\ \E x \in (-MaxCoord)..MaxCoord, y \in (-MaxCoord)..MaxCoord :
       LET r == AsSliceClamped(plane, x, y)
       IN /\ cl' = [active |-> TRUE, x |-> x, y |-> y, start |-> r.start]
          /\ status' = IF r.ok THEN "ok" ELSE "panic"
  /\ UNCHANGED <<plane, bits, ops, last, iter, iw>>

DropClamped ==
  /\ cl.active /\ status = "ok"
  /\ cl' = NoClamped
  /\ UNCHANGED <<plane, bits, status, ops, last, iter, iw>>

NextView ==
  \/ DoIter \/ DoIterNext \/ DropIter
  \/ DoIterWidth \/ DoIterWidthNext \/ DropIterWidth
  \/ DoAsSliceClamped \/ DropClamped

SpecView == InitView /\ [][NextView]_vars

\* ------------------------------------------------------------------ claims
\* The sample at the coordinate (x, y) relative to the visible origin; x and
\* y may be negative (the borders).
P(x, y) == plane.data[(y + plane.cfg.yorigin) * plane.cfg.stride
                      + (x + plane.cfg.xorigin) + 1]
Visible(i) ==
  LET row == ((i - 1) \div plane.cfg.stride) - plane.cfg.yorigin
      col == ((i - 1) % plane.cfg.stride) - plane.cfg.xorigin
  IN row >= 0 /\ row < plane.cfg.height /\ col >= 0 /\ col < plane.cfg.width
IsScenario ==
  <<plane.cfg.width, plane.cfg.height, plane.cfg.xdec, plane.cfg.ydec,
    plane.cfg.xpad, plane.cfg.ypad>> = Scenario

\* The relations between the geometry fields and the buffer that new()
\* establishes, with the documented scenario.
GeometryHolds ==
  LET c == plane.cfg
  IN /\ c.xorigin % 8 = 0 /\ c.xorigin >= c.xpad /\ c.xorigin < c.xpad + 8
     /\ c.yorigin = c.ypad
     /\ c.stride >= c.xorigin + c.width + c.xpad
     /\ c.alloc_height = c.yorigin + c.height + c.ypad
     /\ Len(plane.data) = c.stride * c.alloc_height
     /\ (last.op = "new" => \A i \in 1..Len(plane.data) : plane.data[i] = 128)
     /\ (IsScenario => /\ c.xorigin = 8 /\ c.stride = 16 /\ c.alloc_height = 6
                       /\ Len(plane.data) = 96)

\* C1: the plane built by new() has origin_x = xpad rounded up to a multiple
\* of 8 (so origin_x >= xpad), origin_y = ypad, stride >= origin_x + width +
\* xpad, alloc_height = origin_y + height + ypad, a buffer of stride *
\* alloc_height samples, all 128; new(4, 2, 0, 0, 2, 2) gives origin_x 8,
\* stride 16, alloc_height 6, length 96; and no call of pad, copy_from_raw_u8
\* or downsample_from changes a geometry field or the buffer length, so the
\* relations hold after any sequence of them.
C1_GeometryKept ==
  /\ []GeometryHolds
  /\ [][plane'.cfg = plane.cfg /\ Len(plane'.data) = Len(plane.data)]_vars
C1_Witness ==
  /\ IsScenario /\ ops = 2 /\ status = "ok" /\ last.op = "pad"
  /\ \E i \in 1..Len(plane.data) : plane.data[i] # 128

PadMatches ==
  /\ last.op = "pad"
  /\ Shr(last.args.w, plane.cfg.xdec) = plane.cfg.width
  /\ Shr(last.args.h, plane.cfg.ydec) = plane.cfg.height

\* C3: after pad(w, h) on a plane whose width and height are w >> xdec and
\* h >> ydec, in every visible row the samples left of the visible region
\* equal the sample at (0, y) and those from width to the end of the stride
\* row equal the sample at (width - 1, y); and in every column of the stride
\* the origin_y rows above equal visible row 0 and the pad_y rows below equal
\* visible row height - 1.
C3_PadReplicates ==
  PadMatches =>
    LET c == plane.cfg
    IN /\ status = "ok"
       /\ \A y \in 0..(c.height - 1) :
            /\ \A x \in (-c.xorigin)..(-1) : P(x, y) = P(0, y)
            /\ \A x \in c.width..(c.stride - c.xorigin - 1) :
                 P(x, y) = P(c.width - 1, y)
       /\ \A x \in (-c.xorigin)..(c.stride - c.xorigin - 1) :
            /\ \A y \in (-c.yorigin)..(-1) : P(x, y) = P(x, 0)
            /\ \A y \in c.height..(c.height + c.ypad - 1) :
                 P(x, y) = P(x, c.height - 1)
C3_Witness ==
  /\ PadMatches /\ status = "ok"
  /\ plane.cfg.xorigin > 0 /\ plane.cfg.yorigin > 0
  /\ plane.cfg.width = 2 /\ plane.cfg.height = 2
  /\ Cardinality({P(0, 0), P(1, 0), P(0, 1), P(1, 1), 128}) = 5

\* C4: after dst.downsample_from(src) with src twice as wide and twice as
\* high, every visible sample (x, y) is (src[2x,2y] + src[2x+1,2y] +
\* src[2x,2y+1] + src[2x+1,2y+1] + 2) >> 2, the sum taken exactly; with any
\* other source size the call is fatal (and has written nothing).
C4_Downsample ==
  last.op = "downsample_from" =>
    LET src == last.args.src
        S(x, y) == src.data[(y + src.cfg.yorigin) * src.cfg.stride
                            + (x + src.cfg.xorigin) + 1]
    IN IF plane.cfg.width * 2 = src.cfg.width
          /\ plane.cfg.height * 2 = src.cfg.height
       THEN /\ status = "ok"
            /\ \A x \in 0..(plane.cfg.width - 1), y \in 0..(plane.cfg.height - 1) :
                 P(x, y) = (S(2 * x, 2 * y) + S(2 * x + 1, 2 * y)
                            + S(2 * x, 2 * y + 1) + S(2 * x + 1, 2 * y + 1)
                            + 2) \div 4
       ELSE status = "panic" /\ plane.data = last.pre
C4_Witness ==
  /\ last.op = "downsample_from" /\ status = "ok" /\ bits = 16
  /\ plane.cfg.width = 2 /\ plane.cfg.height = 2
  /\ P(1, 1) = 65535

\* The latest call was copy_from_raw_u8 with bytewidth 1 or 2 and a source of
\* at least height rows of at least width samples.
CopyWellFormed ==
  /\ last.op = "copy_from_raw_u8"
  /\ last.args.source_bytewidth \in {1, 2}
  /\ last.args.source_stride >= plane.cfg.width * last.args.source_bytewidth
  /\ Len(last.args.source) >=
       (plane.cfg.height - 1) * last.args.source_stride
       + plane.cfg.width * last.args.source_bytewidth

C6_Original ==
  last.op = "copy_from_raw_u8" =>
    /\ \A i \in 1..Len(plane.data) : Visible(i) \/ plane.data[i] = last.pre[i]
    /\ (last.args.source_bytewidth \notin {1, 2} => plane.data = last.pre)

\* C10 as claimed: every call of copy_from_raw_u8 with bytewidth 2 on an
\* 8-bit plane is fatal, whatever the source and source_stride, and has
\* written no sample.
C10_Original ==
  (last.op = "copy_from_raw_u8" /\ last.args.source_bytewidth = 2 /\ bits = 8)
    => (status = "panic" /\ plane.data = last.pre)

\* The number of rows next() will still yield from the view (x, y).
RECURSIVE RowsToCome(_, _, _, _)
RowsToCome(pl, x, y, width) ==
  IF IterWidthYields(pl, x, y, width)
  THEN 1 + RowsToCome(pl, x, y + 1, width)
  ELSE 0

\* C7 as claimed: from a view at row y0 in 0..height, with a width that fits
\* in every row of the buffer, iter_width yields exactly height - y0 rows of
\* that width, one row further down each time, and then ends; and size_hint
\* is always the number of rows still to come.
C7_Original ==
  (/\ iw.active
   /\ iw.y0 >= 0 /\ iw.y0 <= plane.cfg.height
   /\ plane.cfg.xorigin + iw.x + iw.width <= plane.cfg.stride) =>
    /\ Len(iw.rows) <= plane.cfg.height - iw.y0
    /\ (iw.nones > 0 => Len(iw.rows) = plane.cfg.height - iw.y0)
    /\ \A k \in 1..Len(iw.rows) :
         iw.rows[k] = IterWidthBase(plane, iw.x, iw.y0 + k - 1)
    /\ SizeHint(plane, iw.y) = RowsToCome(plane, iw.x, iw.y, iw.width)

C9_Original ==
  cl.active =>
    LET c == Clamp(plane, cl.x, cl.y)
    IN /\ cl.start = AsSlice(plane, c.x, c.y).start
       /\ cl.start <= Len(plane.data)
       /\ status = "ok"

====
